---- MODULE Spec2Model ----
(***************************************************************************)
(* Model of grid-builder: the square / hex coordinate systems              *)
(* (src/src/basic_grid.rs), board synthesis and the grid authoring tool    *)
(* (src/src/bin/grid.rs).                                                  *)
(*                                                                         *)
(* Representation of values                                                *)
(*   square::Cell   [x, y]          hex::Cell    [q, r]                    *)
(*   square::Corner [x, y]          hex::Corner  [q, r, left]              *)
(*   Edge<C>        <<corner, corner>>                                     *)
(*   Vec2           <<x, y>> in lattice units: for the square tiling one   *)
(*                  world unit on both axes; for the hex tiling 1/2 world  *)
(*                  unit on x and sqrt(3)/2 world unit on y, so that every *)
(*                  cell centre and every corner is a lattice point.       *)
(*                  The i32 -> f32 cast rounds (ToF32) and the products    *)
(*                  and quotients by powers of two are exact in f32; the   *)
(*                  hex products with sqrt(3) and quotients by 3 are taken *)
(*                  as exact, which at cell centres changes no rounding    *)
(*                  decision of pick while |q|, |r| <= HexExact (the f32   *)
(*                  error stays far below the 1/2 that flips a round).     *)
(***************************************************************************)
EXTENDS Integers, Sequences, FiniteSets

VARIABLES grid, board, probe, result

vars == <<grid, board, probe, result>>

-----------------------------------------------------------------------------
(* Bounds of the model *)

\* a Pick hits a cell <<i, j>> with 0 <= i, 0 <= j and i + j <= MaxSpan
MaxSpan == 1
\* the authoring tool holds at most MaxCells cells and MaxOverrides overrides
MaxCells == 2
MaxOverrides == 1
\* number of RandomState keys (hash iteration orders) explored per HashSet
NumSeeds == 2
\* hex coordinates up to which the exact lattice arithmetic stands for f32
HexExact == 65536

(* Program constants *)

\* f32::MANTISSA_DIGITS: integers of magnitude up to 2^24 are exact in f32
F32_MANTISSA_DIGITS == 24
\* arrow_offset passed by Into<Board>, in hundredths of a world unit
ArrowOffsetSquare == 14
ArrowOffsetHex == 21

Tilings == {"Square", "Hex"}

-----------------------------------------------------------------------------
(* Generic helpers *)

Range(s) == {s[i] : i \in 1..Len(s)}

Abs(n) == IF n < 0 THEN -n ELSE n

Min(S) == CHOOSE m \in S : \A n \in S : m <= n

RECURSIVE Pow2(_)
Pow2(n) == IF n = 0 THEN 1 ELSE 2 * Pow2(n - 1)

\* lexicographic order on integer sequences of equal length (derive(Ord))
SeqLt(s, t) ==
    \E i \in 1..Len(s) : s[i] < t[i] /\ \A j \in 1..(i - 1) : s[j] = t[j]

\* Iterator::position: the first index holding v, 0 for None
IndexOf(seq, v) ==
    LET hits == {i \in 1..Len(seq) : seq[i] = v}
    IN  IF hits = {} THEN 0 ELSE Min(hits)

Contains(seq, v) == \E i \in 1..Len(seq) : seq[i] = v

\* the element of a one-element set.  {F(x) : x \in {e}} is F(e) with e
\* evaluated once: TLC evaluates a bound variable once, a LET name at each use.
TheOnly(S) == CHOOSE x \in S : TRUE

-----------------------------------------------------------------------------
(* f32 arithmetic: src/src/rounding.rs and the casts of basic_grid.rs *)

F32Exact == Pow2(F32_MANTISSA_DIGITS)

\* the spacing of f32 values around the magnitude m
RECURSIVE Ulp(_, _)
Ulp(m, u) == IF m < F32Exact * u THEN u ELSE Ulp(m, 2 * u)

\* `n as f32`: round to nearest representable value, ties to even
ToF32(n) ==
    LET m == Abs(n)
        u == Ulp(m, 1)
        lo == m \div u
        rem == m % u
        up == IF 2 * rem > u THEN 1
              ELSE IF 2 * rem < u THEN 0
              ELSE lo % 2
        r == (lo + up) * u
    IN  IF n < 0 THEN -r ELSE r

\* f32::round of n/d (d > 0) followed by `as i32`: half away from zero
round_to_int(n, d) ==
    IF n >= 0 THEN (2 * n + d) \div (2 * d)
    ELSE -((2 * (-n) + d) \div (2 * d))

\* Rounding::round_with_diff on n/d: <<it, |n/d - it| * d>>
round_with_diff(n, d) ==
    LET it == round_to_int(n, d)
    IN  <<it, Abs(n - it * d)>>

-----------------------------------------------------------------------------
(* square tiling: src/src/basic_grid.rs, mod square *)

SquareCell(x, y) == [x |-> x, y |-> y]

SquareCorner(x, y) == [x |-> x, y |-> y]

square_pick(pos) ==
    SquareCell(round_to_int(pos[1], 2), round_to_int(pos[2], 2))

square_position(c) == <<ToF32(c.x) * 2, ToF32(c.y) * 2>>

square_neighbors(c) ==
    LET offs == <<SquareCell(1, 0), SquareCell(0, 1),
                  SquareCell(-1, 0), SquareCell(0, -1)>>
    IN  [i \in 1..4 |-> SquareCell(offs[i].x + c.x, offs[i].y + c.y)]

square_corners(c) ==
    <<SquareCorner(c.x, c.y), SquareCorner(c.x + 1, c.y),
      SquareCorner(c.x + 1, c.y + 1), SquareCorner(c.x, c.y + 1)>>

\* variant: the closing edge runs clockwise (first corner to last)
square_lines_closing_flipped(c) ==
    LET cs == square_corners(c)
    IN  <<<<cs[1], cs[2]>>, <<cs[2], cs[3]>>, <<cs[3], cs[4]>>, <<cs[1], cs[4]>>>>

square_lines(c) ==
    LET cs == square_corners(c)
    IN  <<<<cs[1], cs[2]>>, <<cs[2], cs[3]>>, <<cs[3], cs[4]>>, <<cs[4], cs[1]>>>>

square_corner_position(k) == <<ToF32(k.x) * 2 - 1, ToF32(k.y) * 2 - 1>>

-----------------------------------------------------------------------------
(* hex tiling: src/src/basic_grid.rs, mod hex *)

HexCell(q, r) == [q |-> q, r |-> r]

HexCorner(q, r, left) == [q |-> q, r |-> r, left |-> left]

hex_corners(c) ==
    <<HexCorner(c.q, c.r, FALSE), HexCorner(c.q + 1, c.r, TRUE),
      HexCorner(c.q - 1, c.r + 1, FALSE), HexCorner(c.q, c.r, TRUE),
      HexCorner(c.q - 1, c.r, FALSE), HexCorner(c.q + 1, c.r - 1, TRUE)>>

hex_lines(c) ==
    LET cs == hex_corners(c)
    IN  <<<<cs[1], cs[2]>>, <<cs[2], cs[3]>>, <<cs[3], cs[4]>>,
          <<cs[4], cs[5]>>, <<cs[5], cs[6]>>, <<cs[6], cs[1]>>>>

\* variant: the last offset is (+1, +1) instead of (+1, 0)
hex_neighbors_wrong_offset(c) ==
    <<HexCell(c.q - 1, c.r), HexCell(c.q - 1, c.r + 1), HexCell(c.q, c.r - 1),
      HexCell(c.q, c.r + 1), HexCell(c.q + 1, c.r - 1), HexCell(c.q + 1, c.r + 1)>>

hex_neighbors(c) ==
    <<HexCell(c.q - 1, c.r), HexCell(c.q - 1, c.r + 1), HexCell(c.q, c.r - 1),
      HexCell(c.q, c.r + 1), HexCell(c.q + 1, c.r - 1), HexCell(c.q + 1, c.r)>>

\* variant: the r axis taken from y alone, without the -x/3 term
hex_pick_no_skew(pos) ==
    LET cq == 2 * pos[1]
        cr == 3 * pos[2]
        qd == round_with_diff(cq, 6)
        rd == round_with_diff(cr, 6)
        sd == round_with_diff(-cq - cr, 6)
        q == qd[1]
        r == rd[1]
        s == sd[1]
    IN  IF qd[2] > rd[2] /\ qd[2] > sd[2] THEN HexCell(-r - s, r)
        ELSE IF rd[2] > sd[2] THEN HexCell(q, -q - s)
        ELSE HexCell(q, r)

\* pos = <<2x, y / (sqrt(3)/2)>>; cq = 2x/3 and cr = -x/3 + sqrt(3)/3 y in sixths
hex_pick(pos) ==
    LET cq == 2 * pos[1]
        cr == 3 * pos[2] - pos[1]
        qd == round_with_diff(cq, 6)
        rd == round_with_diff(cr, 6)
        sd == round_with_diff(-cq - cr, 6)
        q == qd[1]
        r == rd[1]
        s == sd[1]
    IN  IF qd[2] > rd[2] /\ qd[2] > sd[2] THEN HexCell(-r - s, r)
        ELSE IF rd[2] > sd[2] THEN HexCell(q, -q - s)
        ELSE HexCell(q, r)

\* x = 3q/2, y = sqrt(3)/2 q + sqrt(3) r
hex_position(c) == <<ToF32(c.q) * 3, ToF32(c.q) + 2 * ToF32(c.r)>>

hex_corner_position(k) ==
    LET p == hex_position(HexCell(k.q, k.r))
    IN  <<p[1] + (IF k.left THEN -2 ELSE 2), p[2]>>

-----------------------------------------------------------------------------
(* trait BaseCell / BaseCorner: dispatch on the tiling *)

pick(t, pos) == IF t = "Square" THEN square_pick(pos) ELSE hex_pick(pos)

position(t, c) == IF t = "Square" THEN square_position(c) ELSE hex_position(c)

neighbors(t, c) == IF t = "Square" THEN square_neighbors(c) ELSE hex_neighbors(c)

corners(t, c) == IF t = "Square" THEN square_corners(c) ELSE hex_corners(c)

lines(t, c) == IF t = "Square" THEN square_lines(c) ELSE hex_lines(c)

corner_position(t, k) ==
    IF t = "Square" THEN square_corner_position(k) ELSE hex_corner_position(k)

adjacent_to(t, a, b) == Contains(neighbors(t, a), b)

reverse(e) == <<e[2], e[1]>>

\* the value standing for the panic of expect("Edges are not adjacent!")
NotAdjacent == <<>>

\* variant: the neighbour's edges are compared without being reversed
neighboring_edge_no_reverse(t, a, b) ==
    LET my_edges == lines(t, a)
        neighbor_edges == lines(t, b)
        hits == {i \in 1..Len(my_edges) : Contains(neighbor_edges, my_edges[i])}
    IN  IF hits = {} THEN NotAdjacent ELSE my_edges[Min(hits)]

neighboring_edge(t, a, b) ==
    LET my_edges == lines(t, a)
        theirs == lines(t, b)
        neighbor_edges == [i \in 1..Len(theirs) |-> reverse(theirs[i])]
        hits == {i \in 1..Len(my_edges) : Contains(neighbor_edges, my_edges[i])}
    IN  IF hits = {} THEN NotAdjacent ELSE my_edges[Min(hits)]

\* derive(Ord) keys: fields in declaration order, false < true
CellKey(t, c) == IF t = "Square" THEN <<c.x, c.y>> ELSE <<c.q, c.r>>

CornerKey(t, k) ==
    IF t = "Square" THEN <<k.x, k.y>>
    ELSE <<k.q, k.r, IF k.left THEN 1 ELSE 0>>

CornerLt(t, a, b) == SeqLt(CornerKey(t, a), CornerKey(t, b))

\* variant: the corners are returned in the order given
min_max_unordered(t, a, b) == <<a, b>>

\* MinMax::min_max on corners
min_max(t, a, b) == IF CornerLt(t, a, b) THEN <<a, b>> ELSE <<b, a>>

MkCell(t, i, j) == IF t = "Square" THEN SquareCell(i, j) ELSE HexCell(i, j)

-----------------------------------------------------------------------------
(* Coordinate functions applied to drawn inputs *)

NoResult == [op |-> "none"]

\* the cells around the origin, and cells at the edge of f32 exactness
CoordCells(t) == {MkCell(t, i, j) : i \in (-MaxSpan - 1)..(MaxSpan + 1),
                                    j \in (-MaxSpan - 1)..(MaxSpan + 1)}

EdgeCoords == {HexExact, -HexExact, F32Exact, -F32Exact, F32Exact + 1, -F32Exact - 1}

FarCells(t) == {MkCell(t, i, 0) : i \in EdgeCoords} \cup
               {MkCell(t, MaxSpan, j) : j \in EdgeCoords}

CoordInit ==
    /\ \E t \in Tilings : \E a \in CoordCells(t) \cup FarCells(t) :
         \E b \in CoordCells(t) : probe = [t |-> t, a |-> a, b |-> b]
    /\ result = NoResult
    /\ grid = NoResult
    /\ board = NoResult

ApplyPick ==
    /\ result = NoResult
    /\ result' = [op |-> "pick",
                  cell |-> pick(probe.t, position(probe.t, probe.a))]
    /\ UNCHANGED <<grid, board, probe>>

ApplyAdjacent ==
    /\ result = NoResult
    /\ result' = [op |-> "adjacent_to",
                  ab |-> adjacent_to(probe.t, probe.a, probe.b),
                  ba |-> adjacent_to(probe.t, probe.b, probe.a)]
    /\ UNCHANGED <<grid, board, probe>>

ApplyNeighboringEdge ==
    /\ result = NoResult
    /\ result' = [op |-> "neighboring_edge",
                  ab |-> neighboring_edge(probe.t, probe.a, probe.b),
                  ba |-> neighboring_edge(probe.t, probe.b, probe.a)]
    /\ UNCHANGED <<grid, board, probe>>

CoordNext == ApplyPick \/ ApplyAdjacent \/ ApplyNeighboringEdge

SpecCoord == CoordInit /\ [][CoordNext]_vars

-----------------------------------------------------------------------------
(* std::collections::HashSet iteration order *)

\* the elements of S in ascending order of their keys
SortByRank(S, rank) == [i \in 1..Cardinality(S) |-> CHOOSE e \in S : rank[e] = i - 1]

Ranks(S, keyOf) == [e \in S |-> Cardinality({o \in S : SeqLt(keyOf[o], keyOf[e])})]

SortSet(S, keyOf) ==
    TheOnly({TheOnly({SortByRank(S, rank) : rank \in {Ranks(S, k)}}) : k \in {keyOf}})

\* the k-th arrangement of seq: turned by k \div 2 places, backwards for odd k
\* (k = 0 leaves it as it is)
Permute(seq, k) ==
    [i \in 1..Len(seq) |->
        IF k % 2 = 0
        THEN seq[((i - 1 + k \div 2) % Len(seq)) + 1]
        ELSE seq[((Len(seq) - i + k \div 2) % Len(seq)) + 1]]

\* A HashSet iterates in an order fixed by its RandomState keys and its
\* contents: k stands for the keys, and every RandomState::new() of a thread
\* takes the next keys.
HashOrder(S, keyOf, k) == TheOnly({Permute(sorted, k) : sorted \in {SortSet(S, keyOf)}})

Seeds == 0..(NumSeeds - 1)

EdgeKey(t, e) == CornerKey(t, e[1]) \o CornerKey(t, e[2])

CellKeys(t, S) == [c \in S |-> CellKey(t, c)]

CornerKeys(t, S) == [k \in S |-> CornerKey(t, k)]

EdgeKeys(t, S) == [e \in S |-> EdgeKey(t, e)]

\* slice::sort_unstable on a Vec of cells
sort_unstable(t, seq) ==
    [i \in 1..Len(seq) |->
        seq[CHOOSE n \in 1..Len(seq) :
                Cardinality({j \in 1..Len(seq) :
                    \/ SeqLt(CellKey(t, seq[j]), CellKey(t, seq[n]))
                    \/ CellKey(t, seq[j]) = CellKey(t, seq[n]) /\ j < n}) = i - 1]]

-----------------------------------------------------------------------------
(* struct Edges: src/src/bin/grid.rs *)

\* HashMap<C, HashSet<C>> as a function from its keys to sets of cells
EmptyEdges == [c \in {} |-> {}]

add_one_way_edge(E, from, to) ==
    LET E1 == IF to \in DOMAIN E THEN [E EXCEPT ![to] = @ \ {from}] ELSE E
    IN  [c \in DOMAIN E1 \cup {from} |->
            IF c = from
            THEN (IF from \in DOMAIN E1 THEN E1[from] ELSE {}) \cup {to}
            ELSE E1[c]]

\* variant: only the entry of the cell is removed, not its mentions
remove_cell_key_only(E, cell) == [c \in DOMAIN E \ {cell} |-> E[c]]

remove_cell(E, cell) == [c \in DOMAIN E \ {cell} |-> E[c] \ {cell}]

\* variant: the two directions are exchanged
edge_dir_swapped(E, a, b) ==
    IF a \in DOMAIN E /\ b \in E[a] THEN "BToA"
    ELSE IF b \in DOMAIN E /\ a \in E[b] THEN "AToB"
    ELSE "None"

edge_dir(E, a, b) ==
    IF a \in DOMAIN E /\ b \in E[a] THEN "AToB"
    ELSE IF b \in DOMAIN E /\ a \in E[b] THEN "BToA"
    ELSE "None"

\* the directed pairs <<from, to>> an Edges value records
Overrides(E) ==
    {p \in (DOMAIN E) \X (UNION {E[c] : c \in DOMAIN E}) : p[2] \in E[p[1]]}

-----------------------------------------------------------------------------
(* Board values: src/src/board.rs *)

\* Path::simple: keyframes 0.0 and 1.0
PathSimple(start, end) == [k \in {0, 1} |-> IF k = 0 THEN start ELSE end]

\* Vec2::extend(0.0)
extend(p) == <<p[1], p[2], 0>>

\* shape(): each point is the sum of the cell's position and an offset; the
\* offsets are in thousandths of a world unit and the sum is kept as the pair
square_shape(c) ==
    LET offs == <<<<-1000, -1000>>, <<1000, -1000>>, <<1000, 1000>>, <<-1000, 1000>>>>
    IN  [points |-> [i \in 1..4 |-> [at |-> square_position(c), off |-> offs[i]]]]

hex_shape(c) ==
    LET offs == <<<<1000, 0>>, <<500, 866>>, <<-500, 866>>,
                  <<-1000, 0>>, <<-500, -866>>, <<500, -866>>>>
    IN  [points |-> [i \in 1..6 |-> [at |-> hex_position(c), off |-> offs[i]]]]

shape(t, c) == IF t = "Square" THEN square_shape(c) ELSE hex_shape(c)

-----------------------------------------------------------------------------
(* build_board: src/src/bin/grid.rs *)

\* enum TriVert
Corner(c) == [tag |-> "Corner", c |-> c]

Tip(a, b) == [tag |-> "Tip", a |-> a, b |-> b]

TriVertKey(t, v) ==
    IF v.tag = "Corner" THEN <<0>> \o CornerKey(t, v.c) \o CornerKey(t, v.c)
    ELSE <<1>> \o CornerKey(t, v.a) \o CornerKey(t, v.b)

TriVertKeys(t, S) == [v \in S |-> TriVertKey(t, v)]

\* variant: the tip is displaced along the clockwise perpendicular (dy, -dx)
tri_vertex_perp_cw(t, v, arrow_offset) ==
    IF v.tag = "Corner"
    THEN LET p == corner_position(t, v.c)
         IN  [base2 |-> <<2 * p[1], 2 * p[2]>>, perp |-> <<0, 0>>, off |-> 0, z |-> 0]
    ELSE LET a == corner_position(t, v.a)
             b == corner_position(t, v.b)
         IN  [base2 |-> <<a[1] + b[1], a[2] + b[2]>>,
              perp |-> <<b[2] - a[2], -(b[1] - a[1])>>,
              off |-> arrow_offset, z |-> 0]

\* A vertex of the triangle mesh: the point base2 / 2 + perp * off / 100, z = 0.
\* perp is (b - a).perp() = (-dy, dx) in lattice units with the axes exchanged.
tri_vertex(t, v, arrow_offset) ==
    IF v.tag = "Corner"
    THEN LET p == corner_position(t, v.c)
         IN  [base2 |-> <<2 * p[1], 2 * p[2]>>, perp |-> <<0, 0>>, off |-> 0, z |-> 0]
    ELSE LET a == corner_position(t, v.a)
             b == corner_position(t, v.b)
         IN  [base2 |-> <<a[1] + b[1], a[2] + b[2]>>,
              perp |-> <<-(b[2] - a[2]), b[1] - a[1]>>,
              off |-> arrow_offset, z |-> 0]

\* variant: the AToB branch inserts the edge without reversing it
scan_edge_no_reverse(t, cells, edges, cell, neighbor) ==
    LET edge == neighboring_edge(t, cell, neighbor)
    IN  IF edge = NotAdjacent THEN [kind |-> "panic", edge |-> edge]
        ELSE IF Contains(cells, neighbor)
        THEN CASE edge_dir(edges, cell, neighbor) = "AToB" ->
                    [kind |-> "directed", edge |-> edge]
               [] edge_dir(edges, cell, neighbor) = "BToA" ->
                    [kind |-> "directed", edge |-> edge]
               [] OTHER ->
                    [kind |-> "boring", edge |-> min_max(t, edge[1], edge[2])]
        ELSE [kind |-> "boring", edge |-> min_max(t, edge[1], edge[2])]

\* one iteration of the scan loop: what the pair (cell, neighbor) inserts
scan_edge(t, cells, edges, cell, neighbor) ==
    LET edge == neighboring_edge(t, cell, neighbor)
    IN  IF edge = NotAdjacent THEN [kind |-> "panic", edge |-> edge]
        ELSE IF Contains(cells, neighbor)
        THEN CASE edge_dir(edges, cell, neighbor) = "AToB" ->
                    [kind |-> "directed", edge |-> reverse(edge)]
               [] edge_dir(edges, cell, neighbor) = "BToA" ->
                    [kind |-> "directed", edge |-> edge]
               [] OTHER ->
                    [kind |-> "boring", edge |-> min_max(t, edge[1], edge[2])]
        ELSE [kind |-> "boring", edge |-> min_max(t, edge[1], edge[2])]

scans(t, cells, edges) ==
    {scan_edge(t, cells, edges, cells[i], neighbors(t, cells[i])[j]) :
        i \in 1..Len(cells), j \in 1..Len(neighbors(t, MkCell(t, 0, 0)))}

boring_edges(t, cells, edges) ==
    {s.edge : s \in {s \in scans(t, cells, edges) : s.kind = "boring"}}

directed_edges(t, cells, edges) ==
    {s.edge : s \in {s \in scans(t, cells, edges) : s.kind = "directed"}}

\* the deduped corners of the boring edges, as the Vec they are collected into
line_corners(t, boring, k) ==
    TheOnly({HashOrder(S, CornerKeys(t, S), k) :
             S \in {{e[1] : e \in boring} \cup {e[2] : e \in boring}}})

\* variant: the tips are left out of the set of triangle vertices
tri_corners_no_tips(t, directed, k) ==
    TheOnly({HashOrder(S, TriVertKeys(t, S), k) :
             S \in {UNION {{Corner(e[1]), Corner(e[2])} : e \in directed}}})

tri_corners(t, directed, k) ==
    TheOnly({HashOrder(S, TriVertKeys(t, S), k) :
             S \in {UNION {{Corner(e[1]), Corner(e[2]), Tip(e[1], e[2])} : e \in directed}}})

\* variant: the triangle mesh is pushed whether or not it has triangles
board_meshes_always_triangles(line_vertices, line_indices, triangle_vertices, triangles) ==
    <<[color |-> "PlayerColor",
       mesh |-> [kind |-> "IndexedLineMesh", vertices |-> line_vertices,
                 lines |-> line_indices]],
      [color |-> "PlayerColor",
       mesh |-> [kind |-> "IndexedTriMesh", vertices |-> triangle_vertices,
                 triangles |-> triangles]]>>

\* the meshes vector: the line mesh, then the triangle mesh if it has triangles
board_meshes(line_vertices, line_indices, triangle_vertices, triangles) ==
    <<[color |-> "PlayerColor",
       mesh |-> [kind |-> "IndexedLineMesh", vertices |-> line_vertices,
                 lines |-> line_indices]]>>
    \o (IF Len(triangles) > 0
        THEN <<[color |-> "PlayerColor",
                mesh |-> [kind |-> "IndexedTriMesh", vertices |-> triangle_vertices,
                          triangles |-> triangles]]>>
        ELSE <<>>)

\* variant: the keys are positions counted from one
cell_neighbors_one_based(t, old_cells, edges, i) ==
    LET cell == old_cells[i]
        ns == neighbors(t, cell)
        kept == {j \in 1..Len(ns) : /\ edge_dir(edges, cell, ns[j]) # "BToA"
                                    /\ IndexOf(old_cells, ns[j]) # 0}
        keys == {IndexOf(old_cells, ns[j]) : j \in kept}
    IN  [n \in keys |-> PathSimple(position(t, cell), position(t, old_cells[n]))]

\* the neighbors map of the record for old_cells[i]: keys are 0-based indices
cell_neighbors(t, old_cells, edges, i) ==
    LET cell == old_cells[i]
        ns == neighbors(t, cell)
        kept == {j \in 1..Len(ns) : /\ edge_dir(edges, cell, ns[j]) # "BToA"
                                    /\ IndexOf(old_cells, ns[j]) # 0}
        keys == {IndexOf(old_cells, ns[j]) - 1 : j \in kept}
    IN  [n \in keys |-> PathSimple(position(t, cell), position(t, old_cells[n + 1]))]

\* variant: the records are pushed for the cells in reverse order
board_cells_reversed(t, old_cells, edges) ==
    [i \in 1..Len(old_cells) |->
        [neighbors |-> cell_neighbors(t, old_cells, edges, i),
         shape |-> shape(t, old_cells[Len(old_cells) + 1 - i]),
         position |-> position(t, old_cells[Len(old_cells) + 1 - i])]]

board_cells(t, old_cells, edges) ==
    [i \in 1..Len(old_cells) |->
        [neighbors |-> cell_neighbors(t, old_cells, edges, i),
         shape |-> shape(t, old_cells[i]),
         position |-> position(t, old_cells[i])]]

Panicked == [panic |-> TRUE]

\* lines: each boring edge as a pair of 0-based indices into corners
line_indices(corners_vec, boring_seq) ==
    [i \in 1..Len(boring_seq) |->
        <<IndexOf(corners_vec, boring_seq[i][1]) - 1,
          IndexOf(corners_vec, boring_seq[i][2]) - 1>>]

\* triangles: each directed edge as its two corners and its tip
triangle_indices(corners_vec, directed_seq) ==
    [i \in 1..Len(directed_seq) |->
        <<IndexOf(corners_vec, Corner(directed_seq[i][1])) - 1,
          IndexOf(corners_vec, Corner(directed_seq[i][2])) - 1,
          IndexOf(corners_vec, Tip(directed_seq[i][1], directed_seq[i][2])) - 1>>]

\* the rest of build_board once the corner vectors and index buffers are known;
\* an index of -1 is the unwrap() of a None
assemble_board(t, cells, edges, arrow_offset, corners1, line_buf, corners2, tri_buf) ==
    IF \/ \E i \in 1..Len(line_buf) : \E j \in 1..2 : line_buf[i][j] < 0
       \/ \E i \in 1..Len(tri_buf) : \E j \in 1..3 : tri_buf[i][j] < 0
    THEN Panicked
    ELSE [panic |-> FALSE,
          cells |-> board_cells(t, cells, edges),
          meshes |-> board_meshes(
              [i \in 1..Len(corners1) |-> extend(corner_position(t, corners1[i]))],
              line_buf,
              [i \in 1..Len(corners2) |-> tri_vertex(t, corners2[i], arrow_offset)],
              tri_buf)]

build_meshes(t, cells, edges, arrow_offset, seed, boring, directed) ==
    TheOnly({TheOnly({assemble_board(t, cells, edges, arrow_offset,
                                     corners1, line_buf, corners2, tri_buf) :
                      line_buf \in {line_indices(corners1, boring_seq)},
                      tri_buf \in {triangle_indices(corners2, directed_seq)}}) :
             corners1 \in {line_corners(t, boring, seed + 2)},
             boring_seq \in {HashOrder(boring, EdgeKeys(t, boring), seed)},
             corners2 \in {tri_corners(t, directed, seed + 3)},
             directed_seq \in {HashOrder(directed, EdgeKeys(t, directed), seed + 1)}})

\* seed: the RandomState keys the first HashSet of the call receives
build_board(t, cells, edges, arrow_offset, seed) ==
    TheOnly({IF \E s \in sc : s.kind = "panic" THEN Panicked
             ELSE build_meshes(t, cells, edges, arrow_offset, seed,
                               {s.edge : s \in {s \in sc : s.kind = "boring"}},
                               {s.edge : s \in {s \in sc : s.kind = "directed"}}) :
             sc \in {scans(t, cells, edges)}})

\* impl Into<Board> for Grid: the cells of the HashSet as a Vec, sorted for the
\* square tiling only
grid_cells_vec(g) ==
    LET v == HashOrder(g.cells, CellKeys(g.tiling, g.cells), g.hasher)
    IN  IF g.tiling = "Square" THEN sort_unstable(g.tiling, v) ELSE v

arrow_offset_of(t) == IF t = "Square" THEN ArrowOffsetSquare ELSE ArrowOffsetHex

-----------------------------------------------------------------------------
(* The grid authoring tool: src/src/bin/grid.rs *)

NoBoard == [panic |-> FALSE, none |-> TRUE]

default_grid(t, h) == [tiling |-> t, hasher |-> h, cells |-> {}, edges |-> EmptyEdges]

\* cells a Pick can hit
Window(t) == {MkCell(t, i, j) : i \in 0..MaxSpan, j \in 0..MaxSpan} \cap
             {MkCell(t, i, MaxSpan - i - k) : i \in 0..MaxSpan, k \in 0..MaxSpan}

PickPositions(t) == {position(t, c) : c \in Window(t)}

\* one Pick event of handle_picks
picked_grid(g, down_pos, up_pos) ==
    LET down == pick(g.tiling, down_pos)
        up == pick(g.tiling, up_pos)
    IN  IF down = up
        THEN IF down \in g.cells
             THEN [g EXCEPT !.cells = @ \ {down}, !.edges = remove_cell(@, down)]
             ELSE [g EXCEPT !.cells = @ \cup {down}]
        ELSE IF adjacent_to(g.tiling, down, up) /\ up \in g.cells /\ down \in g.cells
        THEN [g EXCEPT !.edges = add_one_way_edge(@, down, up)]
        ELSE g

Init ==
    /\ \E h \in Seeds : grid = default_grid("Square", h)
    /\ board = NoBoard
    /\ probe = NoResult
    /\ result = NoResult

HandlePick ==
    \E down \in PickPositions(grid.tiling), up \in PickPositions(grid.tiling) :
        /\ board = NoBoard
        /\ grid' = picked_grid(grid, down, up)
        /\ Cardinality(grid'.cells) <= MaxCells
        /\ Cardinality(Overrides(grid'.edges)) <= MaxOverrides
        /\ board' = NoBoard
        /\ UNCHANGED <<probe, result>>

\* control_panel: the Square / Hexagon labels
SwitchTiling ==
    \E t \in Tilings \ {grid.tiling}, h \in Seeds :
        /\ board = NoBoard
        /\ grid' = default_grid(t, h)
        /\ board' = NoBoard
        /\ UNCHANGED <<probe, result>>

\* count_capacity and the Export button: grid.clone().into()
IntoBoard ==
    \E seed \in Seeds, cells \in {grid_cells_vec(grid)} :
        /\ board' = [input |-> [tiling |-> grid.tiling, cells |-> cells,
                                 edges |-> grid.edges],
                     out |-> build_board(grid.tiling, cells, grid.edges,
                                         arrow_offset_of(grid.tiling), seed)]
        /\ UNCHANGED <<grid, probe, result>>

\* the Board built in a frame is a local of its system: it is dropped before
\* the next Pick or click is handled
DropBoard ==
    /\ board # NoBoard
    /\ board' = NoBoard
    /\ UNCHANGED <<grid, probe, result>>

Next == HandlePick \/ SwitchTiling \/ IntoBoard \/ DropBoard

Spec == Init /\ [][Next]_vars

-----------------------------------------------------------------------------
(* Polygon::contains (src/src/board.rs), applied to the shape of a cell and a *)
(* point given by its offset from the cell's position.  Differences of       *)
(* points are in thousandths of a world unit; a quotient is kept as the pair *)
(* of its numerator and denominator.                                         *)

\* Vec2 - Vec2 for two points that are offsets from the same position
vec_sub(p, o) == <<p.off[1] - o.off[1], p.off[2] - o.off[2]>>

perp_dot(a, b) == a[1] * b[2] - a[2] * b[1]

\* Ray2d::new(pos, Vec2::X): the direction of the ray
RayDirection == <<1, 0>>

\* (0.0..=1.0).contains(&(num / den)); a zero denominator gives an infinity or NaN
in_unit_range(num, den) ==
    \/ den > 0 /\ 0 <= num /\ num <= den
    \/ den < 0 /\ den <= num /\ num <= 0

\* num / den >= 0.0
non_negative(num, den) ==
    \/ den > 0 /\ num >= 0
    \/ den < 0 /\ num <= 0

\* LineSegment::intersection(ray).is_some() for the segment from p0 to p1
intersection_is_some(p0, p1, origin) ==
    LET ab == vec_sub(p1, p0)
        t_num == perp_dot(vec_sub(origin, p0), RayDirection)
        t_den == perp_dot(ab, RayDirection)
        u_num == perp_dot(vec_sub(p0, origin), ab)
        u_den == perp_dot(RayDirection, ab)
    IN  non_negative(u_num, u_den) /\ in_unit_range(t_num, t_den)

\* circular_tuple_windows over the points
line_segments(poly) ==
    [i \in 1..Len(poly.points) |->
        <<poly.points[i], poly.points[(i % Len(poly.points)) + 1]>>]

contains(poly, pos) ==
    LET segs == line_segments(poly)
        hit == {i \in 1..Len(segs) : intersection_is_some(segs[i][1], segs[i][2], pos)}
    IN  Cardinality(hit) % 2 = 1

\* a point far outside every shape: (100, 100) from the cell's position
FarAway == 100 * 1000

\* offsets of the points asked about: the centre, two points near it, and
\* points far outside
QueryOffsets == {<<0, 0>>, <<200, 100>>, <<-300, -200>>,
                 <<FarAway, FarAway>>, <<-FarAway, 0>>, <<0, -FarAway>>}

ShapeInit ==
    /\ \E t \in Tilings : \E a \in CoordCells(t) : \E off \in QueryOffsets :
         probe = [t |-> t, a |-> a, off |-> off]
    /\ result = NoResult
    /\ grid = NoResult
    /\ board = NoResult

ApplyContains ==
    /\ result = NoResult
    /\ result' = [op |-> "contains",
                  inside |-> contains(shape(probe.t, probe.a),
                                      [at |-> position(probe.t, probe.a),
                                       off |-> probe.off])]
    /\ UNCHANGED <<grid, board, probe>>

SpecShape == ShapeInit /\ [][ApplyContains]_vars

-----------------------------------------------------------------------------
(* Mesh import (src/src/import.rs).  A Loop is its sequence of vertex       *)
(* indices, counted from zero as in the code.  Vertex positions are whole   *)
(* numbers and every line has a whole length, so distances, perimeters and  *)
(* the order of the angles are exact in f32.                                 *)

\* a file holds at most MaxLines lines in a mesh and MaxPrimitives primitives
MaxLines == 9
MaxPrimitives == 3

\* vertex buffer of the line meshes: a kite around vertex 0 and a far triangle
MeshPoints == <<<<0, 0>>, <<12, 0>>, <<0, 9>>, <<-40, 0>>, <<0, -9>>,
                <<100, 100>>, <<160, 100>>, <<100, 180>>>>

\* the lines a mesh is drawn from
CandidateLines == <<<<0, 1>>, <<0, 2>>, <<0, 3>>, <<0, 4>>,
                    <<1, 2>>, <<2, 3>>, <<3, 4>>, <<1, 4>>,
                    <<5, 6>>, <<6, 7>>, <<5, 7>>>>

RECURSIVE lines_of(_, _)
lines_of(S, i) ==
    IF i > Len(CandidateLines) THEN <<>>
    ELSE (IF i \in S THEN <<CandidateLines[i]>> ELSE <<>>) \o lines_of(S, i + 1)

LineMeshes ==
    {[vertices |-> MeshPoints, lines |-> lines_of(S, 1)] :
        S \in {S \in SUBSET (1..Len(CandidateLines)) : Cardinality(S) <= MaxLines}}

\* IndexedLineMesh::neighbors: the other end of every line that has v
RECURSIVE mesh_neighbors_from(_, _, _)
mesh_neighbors_from(mesh, v, i) ==
    IF i > Len(mesh.lines) THEN <<>>
    ELSE LET l == mesh.lines[i]
         IN  (IF v = l[1] THEN <<l[2]>> ELSE IF v = l[2] THEN <<l[1]>> ELSE <<>>)
             \o mesh_neighbors_from(mesh, v, i + 1)

mesh_neighbors(mesh, v) == mesh_neighbors_from(mesh, v, 1)

vertex_xy(mesh, v) == mesh.vertices[v + 1]

xy_sub(p, q) == <<p[1] - q[1], p[2] - q[2]>>

dot(a, b) == a[1] * b[1] + a[2] * b[2]

\* Vec2::angle_between(ab, bx) = acos(cos) * signum(perp_dot) in [-pi, pi],
\* kept as the pair <<perp_dot, dot>> whose atan2 it is; angle_class orders
\* the negative angles, zero, the positive angles and pi
angle_between(ab, bx) == <<perp_dot(ab, bx), dot(ab, bx)>>

angle_class(g) == IF g[1] < 0 THEN 0
                  ELSE IF g[1] = 0 /\ g[2] > 0 THEN 1
                  ELSE IF g[1] > 0 THEN 2 ELSE 3

\* FloatOrd(g) < FloatOrd(h)
angle_less(g, h) ==
    \/ angle_class(g) < angle_class(h)
    \/ /\ angle_class(g) = angle_class(h)
       /\ angle_class(g) \in {0, 2}
       /\ g[2] * h[1] - g[1] * h[2] > 0

\* Loop::new: rotate_left to the first position of the minimum
Loop_new(vs) ==
    LET min == IndexOf(vs, Min(Range(vs))) - 1
    IN  [i \in 1..Len(vs) |-> vs[((i - 1 + min) % Len(vs)) + 1]]

\* Loop::edges: successive pairs and the closing pair, smaller index first
Loop_edges(l) ==
    [i \in 1..Len(l) |->
        LET x == l[i]
            y == l[(i % Len(l)) + 1]
        IN  IF x < y THEN <<x, y>> ELSE <<y, x>>]

\* Vec3::distance for two vertices joined by a line
distance(p, q) ==
    LET d == xy_sub(p, q)
    IN  CHOOSE n \in 0..(Abs(d[1]) + Abs(d[2])) : n * n = dot(d, d)

RECURSIVE sum_lengths(_, _, _)
sum_lengths(edges, vertices, i) ==
    IF i > Len(edges) THEN 0
    ELSE distance(vertices[edges[i][1] + 1], vertices[edges[i][2] + 1])
         + sum_lengths(edges, vertices, i + 1)

\* Loop::perimeter
perimeter(l, vertices) == sum_lengths(Loop_edges(l), vertices, 1)

\* variant: the vertex is never inserted into seen; the walk is cut off after
\* twice as many iterations as the mesh has vertices, plus two
RECURSIVE walk_seen_never_filled(_, _, _, _, _, _)
walk_seen_never_filled(mesh, v, a, b, current, seen) ==
    LET pushed == Append(current, a)
        ab == xy_sub(vertex_xy(mesh, b), vertex_xy(mesh, a))
        angle(x) == angle_between(ab, xy_sub(vertex_xy(mesh, x), vertex_xy(mesh, b)))
        candidates == {x \in Range(mesh_neighbors(mesh, b)) : x # a}
        c == CHOOSE x \in candidates :
                 \A y \in candidates \ {x} : angle_less(angle(y), angle(x))
    IN  IF b = v
        THEN [kind |-> "loop", loop |-> Loop_new(pushed),
              iterations |-> Len(pushed), seen |-> seen]
        ELSE IF a \in seen \/ Len(pushed) >= 2 * Len(mesh.vertices) + 2
        THEN [kind |-> "abandoned", iterations |-> Len(pushed), seen |-> seen]
        ELSE IF candidates = {}
        THEN [kind |-> "panic", iterations |-> Len(pushed), seen |-> seen]
        ELSE walk_seen_never_filled(mesh, v, b, c, pushed, seen)

\* one walk of process_gltf from the directed line v -> next: the loop it
\* inserts, or "abandoned", or "panic" for the unwrap of an empty max_by_key;
\* with the number of iterations of the loop statement it made and the
\* visited set it ended with
RECURSIVE walk(_, _, _, _, _, _)
walk(mesh, v, a, b, current, seen) ==
    LET pushed == Append(current, a)
        ab == xy_sub(vertex_xy(mesh, b), vertex_xy(mesh, a))
        angle(x) == angle_between(ab, xy_sub(vertex_xy(mesh, x), vertex_xy(mesh, b)))
        candidates == {x \in Range(mesh_neighbors(mesh, b)) : x # a}
        c == CHOOSE x \in candidates :
                 \A y \in candidates \ {x} : angle_less(angle(y), angle(x))
    IN  IF b = v
        THEN [kind |-> "loop", loop |-> Loop_new(pushed),
              iterations |-> Len(pushed), seen |-> seen]
        ELSE IF a \in seen
        THEN [kind |-> "abandoned", iterations |-> Len(pushed), seen |-> seen]
        ELSE IF candidates = {}
        THEN [kind |-> "panic", iterations |-> Len(pushed), seen |-> seen \cup {a}]
        ELSE walk(mesh, v, b, c, pushed, seen \cup {a})

\* the walks of one mesh, from every vertex to every neighbour of it
walks(mesh) ==
    UNION {{walk(mesh, v, v, next, <<>>, {}) : next \in Range(mesh_neighbors(mesh, v))} :
           v \in 0..(Len(mesh.vertices) - 1)}

\* key of a Loop for the order of a HashSet<Loop>
LoopKeys(S) ==
    [l \in S |-> [i \in 1..(Len(MeshPoints) + 2) |->
                     IF i = 1 THEN Len(l) ELSE IF i - 1 <= Len(l) THEN l[i - 1] ELSE -1]]

\* Polygon of a loop and the unweighted centroid of its points, the quotient
\* kept as the sum and the number of points
loop_shape(mesh, l) == [points |-> [k \in 1..Len(l) |-> vertex_xy(mesh, l[k])]]

RECURSIVE fold_sum(_, _)
fold_sum(points, i) ==
    IF i > Len(points) THEN <<0, 0>>
    ELSE <<points[i][1] + fold_sum(points, i + 1)[1],
           points[i][2] + fold_sum(points, i + 1)[2]>>

centroid(shp) == [sum |-> fold_sum(shp.points, 1), n |-> Len(shp.points)]

\* keys of the neighbors map of the cell of loops[i]
loop_neighbors(loops, i) ==
    LET edges == Range(Loop_edges(loops[i]))
    IN  {j - 1 : j \in {j \in 1..Len(loops) :
                          LET neighbor_edges == Range(Loop_edges(loops[j]))
                          IN  IF edges \ neighbor_edges = {} THEN FALSE
                              ELSE neighbor_edges \cap edges # {}}}

loop_cells(mesh, loops) ==
    [i \in 1..Len(loops) |->
        LET centre == centroid(loop_shape(mesh, loops[i]))
        IN  [neighbors |-> [n \in loop_neighbors(loops, i) |->
                               PathSimple(centre,
                                          centroid(loop_shape(mesh, loops[n + 1])))],
             shape |-> loop_shape(mesh, loops[i]),
             position |-> centre]]

\* the loops with less than the maximum perimeter, in HashSet order; found is
\* not empty
retained_loops(mesh, found, seed) ==
    LET max_loop_perimeter ==
            CHOOSE m \in {perimeter(l, mesh.vertices) : l \in found} :
                \A l \in found : perimeter(l, mesh.vertices) <= m
        kept == {l \in found : perimeter(l, mesh.vertices) < max_loop_perimeter}
    IN  HashOrder(kept, LoopKeys(kept), seed)

\* the closure of process_gltf that turns one line mesh into its cells; the
\* loops found and the loops kept are recorded beside the cells
extract_loops(mesh, seed) ==
    TheOnly({
        IF \E w \in ws : w.kind = "panic" THEN Panicked
        ELSE TheOnly({
            IF found = {} THEN Panicked
            ELSE TheOnly({[panic |-> FALSE, found |-> found, loops |-> loops,
                           cells |-> loop_cells(mesh, loops)] :
                          loops \in {retained_loops(mesh, found, seed)}}) :
            found \in {{w.loop : w \in {w \in ws : w.kind = "loop"}}}}) :
        ws \in {walks(mesh)}})

\* primitives of a glTF file: the mode, the positions and the index buffer
Modes == {"Points", "Lines", "LineLoop", "LineStrip",
          "Triangles", "TriangleStrip", "TriangleFan"}

UnsupportedModes == {"LineLoop", "LineStrip", "TriangleStrip", "TriangleFan"}

line_primitive(mesh) == [mode |-> "Lines", vertices |-> mesh.vertices, indices |-> mesh.lines]

\* two triangles side by side, as a primitive of each mode, and the four
\* triangles around vertex 0 as a second Lines primitive
SamplePrimitives ==
    {[mode |-> m, vertices |-> MeshPoints,
      indices |-> IF m \in {"Triangles", "TriangleStrip", "TriangleFan"}
                  THEN <<<<0, 1, 2>>, <<0, 2, 3>>>>
                  ELSE lines_of({1, 2, 3, 5, 6}, 1)] : m \in Modes}
    \cup {[mode |-> "Lines", vertices |-> MeshPoints, indices |-> lines_of(1..8, 1)]}

RECURSIVE SeqsUpTo(_, _)
SeqsUpTo(S, n) ==
    IF n = 0 THEN {<<>>}
    ELSE SeqsUpTo(S, n - 1) \cup
         {Append(q, x) : q \in {q \in SeqsUpTo(S, n - 1) : Len(q) = n - 1}, x \in S}

Gltfs == {<<line_primitive(mesh)>> : mesh \in LineMeshes} \cup
         SeqsUpTo(SamplePrimitives, MaxPrimitives)

\* variant: every Mesh is put in front of the meshes collected so far
RECURSIVE collect_meshes_prepending(_, _, _)
collect_meshes_prepending(prims, i, meshes) ==
    IF i > Len(prims) THEN [panic |-> FALSE, meshes |-> meshes]
    ELSE LET prim == prims[i]
         IN  IF prim.mode = "Lines"
             THEN collect_meshes_prepending(prims, i + 1,
                      <<[kind |-> "IndexedLineMesh",
                         vertices |-> prim.vertices,
                         lines |-> prim.indices]>> \o meshes)
             ELSE IF prim.mode = "Triangles"
             THEN collect_meshes_prepending(prims, i + 1,
                      <<[kind |-> "IndexedTriMesh",
                         vertices |-> prim.vertices,
                         triangles |-> prim.indices]>> \o meshes)
             ELSE IF prim.mode = "Points"
             THEN collect_meshes_prepending(prims, i + 1, meshes)
             ELSE Panicked

\* the first loop of process_gltf: the Mesh of every primitive in turn; a
\* todo!() panics, a Points primitive is skipped
RECURSIVE collect_meshes(_, _, _)
collect_meshes(prims, i, meshes) ==
    IF i > Len(prims) THEN [panic |-> FALSE, meshes |-> meshes]
    ELSE LET prim == prims[i]
         IN  IF prim.mode = "Lines"
             THEN collect_meshes(prims, i + 1,
                      Append(meshes, [kind |-> "IndexedLineMesh",
                                      vertices |-> prim.vertices,
                                      lines |-> prim.indices]))
             ELSE IF prim.mode = "Triangles"
             THEN collect_meshes(prims, i + 1,
                      Append(meshes, [kind |-> "IndexedTriMesh",
                                      vertices |-> prim.vertices,
                                      triangles |-> prim.indices]))
             ELSE IF prim.mode = "Points"
             THEN collect_meshes(prims, i + 1, meshes)
             ELSE Panicked

\* the line meshes among the meshes, in order
line_meshes(meshes) ==
    SelectSeq(meshes, LAMBDA x : x.kind = "IndexedLineMesh")

\* process_gltf: the boards of the line meshes and the meshes themselves
process_gltf(gltf, seed) ==
    TheOnly({
        IF collected.panic THEN Panicked
        ELSE TheOnly({
            IF \E i \in 1..Len(boards) : boards[i].panic THEN Panicked
            ELSE [panic |-> FALSE, boards |-> boards, meshes |-> collected.meshes] :
            boards \in {[i \in 1..Len(line_meshes(collected.meshes)) |->
                            extract_loops([vertices |-> line_meshes(collected.meshes)[i].vertices,
                                           lines |-> line_meshes(collected.meshes)[i].lines],
                                          seed)]}}) :
        collected \in {collect_meshes(gltf, 1, <<>>)}})

ImportInit ==
    /\ \E gltf \in Gltfs : probe = [gltf |-> gltf]
    /\ result = NoResult
    /\ grid = NoResult
    /\ board = NoResult

\* the Import button: process_gltf on the chosen file
ProcessGltf ==
    /\ result = NoResult
    /\ \E seed \in Seeds :
         result' = [op |-> "process_gltf", out |-> process_gltf(probe.gltf, seed)]
    /\ UNCHANGED <<grid, board, probe>>

SpecImport == ImportInit /\ [][ProcessGltf]_vars

-----------------------------------------------------------------------------
(* The board editor (src/src/bin/editor.rs): the Board resource, the cell     *)
(* lists imported so far, and the systems that change the cells.  result     *)
(* remembers the cells before the last removal.                              *)

MaxImports == 1

\* files the Import button is given: the four triangles around vertex 0, and
\* two triangles side by side
EditorFiles == {<<[mode |-> "Lines", vertices |-> MeshPoints, indices |-> lines_of(1..8, 1)]>>,
                <<[mode |-> "Lines", vertices |-> MeshPoints,
                   indices |-> lines_of({1, 2, 3, 5, 6}, 1)]>>}

\* world positions of the cursor: one inside each of three triangles around
\* vertex 0, and one outside every shape
EditorPicks == {<<3, 2>>, <<-10, 2>>, <<-10, -2>>, <<200, 200>>}

\* a Vec2 as a point of the plane for Polygon::contains
as_point(p) == [at |-> <<0, 0>>, off |-> p]

\* Board::pick: the position of the first cell whose shape contains pos, or
\* -1 for None
Board_pick(cells, pos) ==
    LET hits == {i \in 1..Len(cells) :
                    contains([points |-> [k \in 1..Len(cells[i].shape.points) |->
                                             as_point(cells[i].shape.points[k])]],
                             as_point(pos))}
    IN  IF hits = {} THEN -1 ELSE Min(hits) - 1

\* variant: the keys above x are not moved down
reindexed_without_shift(old_neighbors, x) ==
    [m \in DOMAIN old_neighbors \ {x} |-> old_neighbors[m]]

\* variant: the keys above x are dropped with the key x
reindexed_dropping_above(old_neighbors, x) ==
    [m \in {n \in DOMAIN old_neighbors : n < x} |-> old_neighbors[m]]

\* the filter_map of board_panel over one neighbors map after cell x is gone
reindexed(old_neighbors, x) ==
    LET new_keys == {IF n > x THEN n - 1 ELSE n : n \in DOMAIN old_neighbors \ {x}}
    IN  [m \in new_keys |-> old_neighbors[IF m >= x THEN m + 1 ELSE m]]

\* BoardResponse::Remove(x): board.cells.remove(x), then every map re-keyed
removed(cells, x) ==
    [i \in 1..(Len(cells) - 1) |->
        LET cell == cells[IF i - 1 >= x THEN i + 1 ELSE i]
        IN  [cell EXCEPT !.neighbors = reindexed(@, x)]]

\* one Pick of handle_picks with both ends on cells
toggled(cells, down, up) ==
    IF down = up THEN cells
    ELSE IF up \in DOMAIN cells[down + 1].neighbors
    THEN [cells EXCEPT ![down + 1].neighbors = [n \in DOMAIN @ \ {up} |-> @[n]]]
    ELSE [cells EXCEPT ![down + 1].neighbors =
            [n \in DOMAIN @ \cup {up} |->
                IF n = up THEN PathSimple(cells[down + 1].position, cells[up + 1].position)
                ELSE @[n]]]

EditedResult(name) == [op |-> name]

\* init_resource::<Board>() and init_resource::<ImportedMeshes>()
EditorInit ==
    /\ board = [cells |-> <<>>]
    /\ probe = <<>>
    /\ result = NoResult
    /\ grid = NoResult

\* what process_gltf returns for the files, as the cell lists of its boards; a
\* call that panics ends the program
ImportedCellLists ==
    {[i \in 1..Len(imported.boards) |-> imported.boards[i].cells] :
        imported \in {imported \in {process_gltf(gltf, seed) :
                                       gltf \in EditorFiles, seed \in Seeds} :
                         ~imported.panic}}

\* the Import... button: the boards of process_gltf are appended to meshes.0
ImportFile ==
    \E lists \in ImportedCellLists :
        /\ Len(probe) < MaxImports
        /\ probe' = probe \o lists
        /\ result' = EditedResult("import")
        /\ UNCHANGED <<grid, board>>

\* a Load button: board.cells = cells.clone()
LoadCells ==
    \E i \in 1..Len(probe) :
        /\ board' = [board EXCEPT !.cells = probe[i]]
        /\ result' = EditedResult("load")
        /\ UNCHANGED <<grid, probe>>

\* what Board::pick answers for the positions of the cursor
PickedCells(cells) == {Board_pick(cells, pos) : pos \in EditorPicks}

\* handle_picks of the editor: one Pick event
TogglePick ==
    \E down \in PickedCells(board.cells), up \in PickedCells(board.cells) :
        /\ down # -1
        /\ up # -1
        /\ down # up
        /\ board' = [board EXCEPT !.cells = toggled(@, down, up)]
        /\ result' = EditedResult("pick")
        /\ UNCHANGED <<grid, probe>>

\* board_panel: the Remove button of cell x
RemoveCell ==
    \E x \in 0..(Len(board.cells) - 1) :
        /\ board' = [board EXCEPT !.cells = removed(@, x)]
        /\ result' = [op |-> "remove", x |-> x, before |-> board.cells]
        /\ UNCHANGED <<grid, probe>>

EditorNext == ImportFile \/ LoadCells \/ TogglePick \/ RemoveCell

SpecEditor == EditorInit /\ [][EditorNext]_vars

-----------------------------------------------------------------------------
(* Export (src/src/export.rs): the tasks ExportBoardCmd spawns and the        *)
(* Exporting resource.  probe is the program the tasks run in, result the    *)
(* resource and the place every task has come to.                            *)

MaxTasks == 3

Apps == {"grid", "editor"}

Tasks == 1..MaxTasks

\* places of a task: not yet spawned; spawned, before its first with_world;
\* awaiting save_file(); awaiting file.write(); before its last with_world;
\* finished
TaskPlaces == {"none", "spawned", "dialog", "writing", "removing", "done"}

\* between world.insert_resource(Exporting) and world.remove_resource
HoldsMarker(place) == place \in {"dialog", "writing", "removing"}

ExportInit ==
    /\ \E app \in Apps : probe = [app |-> app]
    /\ result = [exporting |-> FALSE, tasks |-> [i \in Tasks |-> "none"]]
    /\ grid = NoResult
    /\ board = NoResult

\* result once task i has moved to a place and the resource is e
moved(i, to, e) == [exporting |-> e, tasks |-> [result.tasks EXCEPT ![i] = to]]

\* the Export JSON... button of the grid tool, enabled while the resource is
\* absent, and the Save as... button of the editor: commands.add(ExportBoardCmd)
ClickExport(i) ==
    /\ probe.app = "grid" => ~result.exporting
    /\ \A j \in Tasks : j < i => result.tasks[j] # "none"
    /\ result.tasks[i] = "none"
    /\ result' = moved(i, "spawned", result.exporting)
    /\ UNCHANGED <<grid, board, probe>>

\* the first with_world: world.insert_resource(Exporting)
InsertMarker(i) ==
    /\ result.tasks[i] = "spawned"
    /\ result' = moved(i, "dialog", TRUE)
    /\ UNCHANGED <<grid, board, probe>>

\* dialog.save_file() gives None
CancelDialog(i) ==
    /\ result.tasks[i] = "dialog"
    /\ result' = moved(i, "removing", result.exporting)
    /\ UNCHANGED <<grid, board, probe>>

\* dialog.save_file() gives a file
ChooseFile(i) ==
    /\ result.tasks[i] = "dialog"
    /\ result' = moved(i, "writing", result.exporting)
    /\ UNCHANGED <<grid, board, probe>>

\* file.write(..) gives Ok
WriteSucceeds(i) ==
    /\ result.tasks[i] = "writing"
    /\ result' = moved(i, "removing", result.exporting)
    /\ UNCHANGED <<grid, board, probe>>

\* file.write(..) gives Err, which is printed
WriteFails(i) ==
    /\ result.tasks[i] = "writing"
    /\ result' = moved(i, "removing", result.exporting)
    /\ UNCHANGED <<grid, board, probe>>

\* the last with_world: world.remove_resource::<Exporting>()
RemoveMarker(i) ==
    /\ result.tasks[i] = "removing"
    /\ result' = moved(i, "done", FALSE)
    /\ UNCHANGED <<grid, board, probe>>

TaskStep(i) ==
    \/ InsertMarker(i)
    \/ CancelDialog(i)
    \/ ChooseFile(i)
    \/ WriteSucceeds(i)
    \/ WriteFails(i)
    \/ RemoveMarker(i)

ExportNext == \E i \in Tasks : ClickExport(i) \/ TaskStep(i)

SpecExport == ExportInit /\ [][ExportNext]_vars

\* every with_world is run and every dialog and write comes to an end
SpecExportFair == SpecExport /\ \A i \in Tasks : WF_vars(TaskStep(i))

-----------------------------------------------------------------------------
(* Properties of board synthesis, stated on the Board held in `board` *)

\* a Board has been synthesized and build_board did not panic
Built == board # NoBoard /\ ~board.out.panic

\* corners two cells have in common: the physical edge between neighbours
SharedCorners(t, a, b) == Range(corners(t, a)) \cap Range(corners(t, b))

\* overrides between two authored, geometrically adjacent cells
AuthoredOverrides(t, cells, edges) ==
    {p \in Overrides(edges) : /\ p[1] \in Range(cells) /\ p[2] \in Range(cells)
                              /\ adjacent_to(t, p[1], p[2])}

\* physical edges that are walls: towards a cell that is not authored, or
\* between authored cells with no override in either direction
WallEdges(t, cells, edges) ==
    UNION {{SharedCorners(t, c, n) :
               n \in {n \in Range(neighbors(t, c)) :
                        \/ n \notin Range(cells)
                        \/ /\ <<c, n>> \notin Overrides(edges)
                           /\ <<n, c>> \notin Overrides(edges)}} :
           c \in Range(cells)}

\* the undirected segments of an indexed line mesh, by vertex position
LineSegments(m) == [i \in 1..Len(m.lines) |->
                      {m.vertices[m.lines[i][1] + 1], m.vertices[m.lines[i][2] + 1]}]

\* the positions of the tip vertices of an indexed triangle mesh
TipIndices(m) == {i \in 1..Len(m.vertices) : m.vertices[i].perp # <<0, 0>>}

\* C1: every key of every cell record's neighbors map is an index below the
\* number of cell records, and no record has its own index as a key.
C1_NeighborKeysValid ==
    Built =>
        \A i \in 1..Len(board.out.cells) :
            \A k \in DOMAIN board.out.cells[i].neighbors :
                /\ k \in 0..(Len(board.out.cells) - 1)
                /\ k # i - 1

C1_Witness ==
    /\ Built
    /\ \E i \in 1..Len(board.out.cells) : DOMAIN board.out.cells[i].neighbors # {}

\* C2: the record of cell C has the index of N as a key iff N is an authored
\* geometric neighbour of C and the registry does not record N -> C; with an
\* override A -> B, A's map has B and B's map does not have A.
C2_NeighborsFollowOverrides ==
    Built =>
        LET t == board.input.tiling
            cells == board.input.cells
            ov == Overrides(board.input.edges)
            nbrs(i) == DOMAIN board.out.cells[i].neighbors
        IN  /\ Len(board.out.cells) = Len(cells)
            /\ \A i \in 1..Len(cells) : \A n \in 1..Len(cells) :
                   (n - 1 \in nbrs(i)) <=>
                       /\ adjacent_to(t, cells[i], cells[n])
                       /\ <<cells[n], cells[i]>> \notin ov
            /\ \A i \in 1..Len(cells) : \A n \in 1..Len(cells) :
                   (<<cells[i], cells[n]>> \in ov /\ adjacent_to(t, cells[i], cells[n]))
                       => (n - 1 \in nbrs(i) /\ i - 1 \notin nbrs(n))

C2_Witness ==
    /\ Built
    /\ \E i \in 1..Len(board.input.cells) : \E n \in 1..Len(board.input.cells) :
           /\ <<board.input.cells[i], board.input.cells[n]>> \in Overrides(board.input.edges)
           /\ n - 1 \in DOMAIN board.out.cells[i].neighbors
           /\ i - 1 \notin DOMAIN board.out.cells[n].neighbors

\* C3: the line mesh has exactly one line per wall edge (an edge towards a cell
\* that is not authored, or between authored cells without override) and no
\* line for an edge with an override; its vertex buffer holds each used corner
\* once and every line index is an index into it.
C3_LineMeshIsTheWalls ==
    Built =>
        LET t == board.input.tiling
            cells == board.input.cells
            edges == board.input.edges
            m == board.out.meshes[1].mesh
            walls == WallEdges(t, cells, edges)
            pos(k) == extend(corner_position(t, k))
        IN  /\ m.kind = "IndexedLineMesh"
            /\ \A i \in 1..Len(m.lines) : \A j \in 1..2 :
                   m.lines[i][j] \in 0..(Len(m.vertices) - 1)
            /\ Range(LineSegments(m)) = {{pos(k) : k \in w} : w \in walls}
            /\ Len(m.lines) = Cardinality(walls)
            /\ Range(m.vertices) = {pos(k) : k \in UNION walls}
            /\ Len(m.vertices) = Cardinality(UNION walls)
            /\ \A p \in AuthoredOverrides(t, cells, edges) :
                   {pos(k) : k \in SharedCorners(t, p[1], p[2])} \notin Range(LineSegments(m))

C3_Witness ==
    /\ Built
    /\ AuthoredOverrides(board.input.tiling, board.input.cells, board.input.edges) = {}
    /\ \E i \in 1..Len(board.input.cells) : \E n \in 1..Len(board.input.cells) :
           adjacent_to(board.input.tiling, board.input.cells[i], board.input.cells[n])
    /\ Len(board.out.meshes[1].mesh.lines) > 0

\* C4: each one-way override between authored adjacent cells yields one
\* directed edge, oriented the same from either cell's scan, hence one
\* triangle and one tip vertex; no two tip vertices sit on the same corner pair.
C4_OneTrianglePerOverride ==
    Built =>
        LET t == board.input.tiling
            cells == board.input.cells
            edges == board.input.edges
            ov == AuthoredOverrides(t, cells, edges)
            tri == board.out.meshes[2].mesh
            cornerVertex(k) == tri_vertex(t, Corner(k), 0)
        IN  /\ \A p \in ov :
                   /\ scan_edge(t, cells, edges, p[1], p[2]).kind = "directed"
                   /\ scan_edge(t, cells, edges, p[1], p[2])
                        = scan_edge(t, cells, edges, p[2], p[1])
            /\ ov # {} =>
                   /\ Len(board.out.meshes) = 2
                   /\ Len(tri.triangles) = Cardinality(ov)
                   /\ Cardinality(TipIndices(tri)) = Cardinality(ov)
                   /\ \A i \in TipIndices(tri) : \A j \in TipIndices(tri) :
                          i # j => tri.vertices[i].base2 # tri.vertices[j].base2
                   /\ \A p \in ov :
                          Cardinality({i \in 1..Len(tri.triangles) :
                              /\ {tri.vertices[tri.triangles[i][1] + 1],
                                  tri.vertices[tri.triangles[i][2] + 1]}
                                   = {cornerVertex(k) : k \in SharedCorners(t, p[1], p[2])}
                              /\ tri.triangles[i][3] + 1 \in TipIndices(tri)}) = 1

C4_Witness ==
    /\ Built
    /\ AuthoredOverrides(board.input.tiling, board.input.cells, board.input.edges) # {}
    /\ Len(board.out.meshes) = 2
    /\ Len(board.out.meshes[2].mesh.triangles) = 1

\* C5: build_board completes: no neighboring_edge call meets NotAdjacent and
\* every corner, tip and cell lookup finds its element.
C5_BuildBoardCompletes ==
    board # NoBoard =>
        /\ ~board.out.panic
        /\ \A i \in 1..Len(board.input.cells) :
               \A n \in Range(neighbors(board.input.tiling, board.input.cells[i])) :
                   neighboring_edge(board.input.tiling, board.input.cells[i], n) # NotAdjacent

C5_Witness ==
    /\ Built
    /\ Len(board.input.cells) = MaxCells
    /\ Len(board.out.meshes) = 2

\* C6: two syntheses of the same grid yield identical Boards, including the
\* order of the vertices, lines and triangles.
C6_SynthesisDeterministic ==
    [][(board # NoBoard /\ board' # NoBoard) => board'.out = board.out]_vars

\* C7: the line mesh is always the first mesh, even with no lines, and a
\* triangle mesh is present, as second mesh, iff there is a directed edge.
C7_MeshesLayout ==
    Built =>
        LET ov == AuthoredOverrides(board.input.tiling, board.input.cells,
                                    board.input.edges)
        IN  /\ Len(board.out.meshes) \in {1, 2}
            /\ board.out.meshes[1].mesh.kind = "IndexedLineMesh"
            /\ (Len(board.out.meshes) = 2) <=> (ov # {})
            /\ Len(board.out.meshes) = 2 =>
                   /\ board.out.meshes[2].mesh.kind = "IndexedTriMesh"
                   /\ Len(board.out.meshes[2].mesh.triangles) > 0

C7_Witness ==
    /\ Built
    /\ Len(board.out.meshes) = 1
    /\ Len(board.out.meshes[1].mesh.lines) = 0

-----------------------------------------------------------------------------
(* Properties of the coordinate functions, stated on `probe` and `result` *)

\* the cells for which every f32 operation of position and pick is exact
InExactRange(t, c) ==
    IF t = "Square" THEN Abs(c.x) <= F32Exact /\ Abs(c.y) <= F32Exact
    ELSE Abs(c.q) <= HexExact /\ Abs(c.r) <= HexExact

C9_NeighborSymmetry ==
    result.op = "adjacent_to" =>
        /\ result.ab = result.ba
        /\ result.ab <=> probe.b \in Range(neighbors(probe.t, probe.a))
        /\ result.ba <=> probe.a \in Range(neighbors(probe.t, probe.b))

C9_Witness ==
    /\ result.op = "adjacent_to"
    /\ probe.t = "Hex"
    /\ probe.a.q # probe.b.q
    /\ probe.a.r # probe.b.r
    /\ result.ab
    /\ result.ba

\* C10: for adjacent a and b, neighboring_edge(a, b) with its corners swapped
\* is neighboring_edge(b, a).
C10_EdgeReciprocity ==
    (result.op = "neighboring_edge" /\ adjacent_to(probe.t, probe.a, probe.b)) =>
        /\ result.ab # NotAdjacent
        /\ result.ba # NotAdjacent
        /\ reverse(result.ab) = result.ba

C10_Witness ==
    /\ result.op = "neighboring_edge"
    /\ adjacent_to(probe.t, probe.a, probe.b)
    /\ result.ab # NotAdjacent
    /\ reverse(result.ab) = result.ba

\* C11: neighboring_edge(a, b) returns an edge iff adjacent_to(a, b): for an
\* adjacent pair exactly one edge of a has its reverse among b's edges, and for
\* every other pair (a = b and square diagonals included) it is NotAdjacent.
C11_EdgeIffAdjacent ==
    result.op = "neighboring_edge" =>
        LET mine == lines(probe.t, probe.a)
            theirs == Range(lines(probe.t, probe.b))
            matching == {i \in 1..Len(mine) : reverse(mine[i]) \in theirs}
        IN  /\ (result.ab # NotAdjacent) <=> adjacent_to(probe.t, probe.a, probe.b)
            /\ adjacent_to(probe.t, probe.a, probe.b) =>
                   /\ Cardinality(matching) = 1
                   /\ \E i \in matching : result.ab = mine[i]
            /\ ~adjacent_to(probe.t, probe.a, probe.b) =>
                   /\ matching = {}
                   /\ result.ab = NotAdjacent
            /\ probe.a = probe.b => result.ab = NotAdjacent

C11_Witness ==
    /\ result.op = "neighboring_edge"
    /\ probe.t = "Square"
    /\ Abs(probe.a.x - probe.b.x) = 1
    /\ Abs(probe.a.y - probe.b.y) = 1
    /\ result.ab = NotAdjacent
    /\ result.ba = NotAdjacent

\* C12: for every cell c of either tiling the shape of c contains the position
\* of c, and does not contain a point far outside it.
C12_ShapeContainsCentre ==
    result.op = "contains" =>
        /\ probe.off = <<0, 0>> => result.inside
        /\ (Abs(probe.off[1]) = FarAway \/ Abs(probe.off[2]) = FarAway) => ~result.inside

\* twice the scalar product of (centre of c - midpoint of v) with the
\* perpendicular of v; its sign is the side of the edge c lies on
TipSide(t, v, c) ==
    (2 * position(t, c)[1] - v.base2[1]) * v.perp[1]
        + (2 * position(t, c)[2] - v.base2[2]) * v.perp[2]

\* C19: with a positive arrow_offset, the tip vertex of an override F -> T is
\* the midpoint of the edge F and T share, displaced by arrow_offset times
\* the perpendicular of the directed edge, and lies strictly on the side of
\* T, for either tiling and for the scan of F as for the scan of T.
C19_TipOnTargetSide ==
    Built =>
        LET t == board.input.tiling
            cells == board.input.cells
            edges == board.input.edges
        IN  \A p \in AuthoredOverrides(t, cells, edges) :
                \A s \in {scan_edge(t, cells, edges, p[1], p[2]),
                          scan_edge(t, cells, edges, p[2], p[1])} :
                    /\ s.kind = "directed"
                    /\ Len(board.out.meshes) = 2
                    /\ \E i \in TipIndices(board.out.meshes[2].mesh) :
                         LET v == board.out.meshes[2].mesh.vertices[i]
                             a == corner_position(t, s.edge[1])
                             b == corner_position(t, s.edge[2])
                         IN  /\ {s.edge[1], s.edge[2]} = SharedCorners(t, p[1], p[2])
                             /\ v.base2 = <<a[1] + b[1], a[2] + b[2]>>
                             /\ v.perp = <<-(b[2] - a[2]), b[1] - a[1]>>
                             /\ v.off = arrow_offset_of(t)
                             /\ v.off > 0
                             /\ v.off * TipSide(t, v, p[2]) > 0
                             /\ v.off * TipSide(t, v, p[1]) < 0

C19_Witness ==
    /\ Built
    /\ board.input.tiling = "Hex"
    /\ AuthoredOverrides(board.input.tiling, board.input.cells, board.input.edges) # {}
    /\ Len(board.out.meshes) = 2
    /\ \E i \in TipIndices(board.out.meshes[2].mesh) :
         \E p \in AuthoredOverrides(board.input.tiling, board.input.cells,
                                    board.input.edges) :
             TipSide(board.input.tiling, board.out.meshes[2].mesh.vertices[i], p[2]) > 0

\* C20: the board has one cell record per input cell, and record i has the
\* position and the shape of the i-th input cell.
C20_CellOrderPreserved ==
    Built =>
        /\ Len(board.out.cells) = Len(board.input.cells)
        /\ \A i \in 1..Len(board.input.cells) :
             /\ board.out.cells[i].position
                    = position(board.input.tiling, board.input.cells[i])
             /\ board.out.cells[i].shape
                    = shape(board.input.tiling, board.input.cells[i])

C20_Witness ==
    /\ Built
    /\ Len(board.out.cells) = 2
    /\ board.out.cells[1].position # board.out.cells[2].position
    /\ board.out.cells[2].position
           = position(board.input.tiling, board.input.cells[2])

\* C23: in the authoring tool every registry entry a -> b has a and b among
\* the authored cells, a adjacent to b, and no entry b -> a beside it; so
\* edge_dir(a, b) is AToB exactly when edge_dir(b, a) is BToA, and the
\* cells.get(..).unwrap() of draw_grid find their cells.
C23_RegistryWellFormed ==
    /\ \A p \in Overrides(grid.edges) :
         /\ p[1] \in grid.cells
         /\ p[2] \in grid.cells
         /\ adjacent_to(grid.tiling, p[1], p[2])
         /\ <<p[2], p[1]>> \notin Overrides(grid.edges)
    /\ \A a \in Window(grid.tiling) : \A b \in Window(grid.tiling) :
         edge_dir(grid.edges, a, b) = "AToB" <=> edge_dir(grid.edges, b, a) = "BToA"
    /\ \A a \in DOMAIN grid.edges : \A b \in grid.edges[a] :
         a \in grid.cells /\ b \in grid.cells

\* an override b -> a recorded over the emptied entry of a: a -> b was
\* recorded before and has been turned around
C23_Witness ==
    \E p \in Overrides(grid.edges) :
        /\ p[2] \in DOMAIN grid.edges
        /\ grid.edges[p[2]] = {}
        /\ edge_dir(grid.edges, p[2], p[1]) = "BToA"

-----------------------------------------------------------------------------
(* Properties of mesh import                                                *)

Imported == result.op = "process_gltf" /\ ~result.out.panic

ImportedBoards == IF Imported THEN Range(result.out.boards) ELSE {}

EdgeSet(l) == Range(Loop_edges(l))

IsRotation(l, m) ==
    /\ Len(l) = Len(m)
    /\ \E k \in 0..(Len(l) - 1) :
         \A i \in 1..Len(l) : m[i] = l[((i - 1 + k) % Len(l)) + 1]

LongestLoops(b, vertices) ==
    {l \in b.found : \A m \in b.found : perimeter(m, vertices) <= perimeter(l, vertices)}

\* C13: in every imported board, cell i has j as a neighbor key exactly when
\* their loops share a segment and do not have the same set of segments; the
\* relation is symmetric, no cell is its own neighbor and every key is the
\* index of a cell.
C13_ImportNeighbors ==
    \A b \in ImportedBoards :
        \A i \in 1..Len(b.cells) :
            /\ DOMAIN b.cells[i].neighbors \subseteq 0..(Len(b.cells) - 1)
            /\ (i - 1) \notin DOMAIN b.cells[i].neighbors
            /\ \A j \in 1..Len(b.cells) :
                 /\ (j - 1) \in DOMAIN b.cells[i].neighbors <=>
                        /\ EdgeSet(b.loops[i]) \cap EdgeSet(b.loops[j]) # {}
                        /\ EdgeSet(b.loops[i]) # EdgeSet(b.loops[j])
                 /\ (j - 1) \in DOMAIN b.cells[i].neighbors <=>
                        (i - 1) \in DOMAIN b.cells[j].neighbors

\* C14: of the loops a line mesh yields exactly one is discarded, a loop of
\* the greatest perimeter, and every other loop becomes a cell.
C14_OneLoopDiscarded ==
    \A b \in ImportedBoards :
        /\ Len(b.loops) = Cardinality(b.found) - 1
        /\ \E l \in LongestLoops(b, MeshPoints) : Range(b.loops) = b.found \ {l}

\* C15: every retained loop starts at its least vertex index and no two
\* retained loops are rotations of one another.
C15_NoRotatedDuplicates ==
    \A b \in ImportedBoards :
        \A i \in 1..Len(b.loops) :
            /\ \A k \in 1..Len(b.loops[i]) : b.loops[i][1] <= b.loops[i][k]
            /\ \A j \in 1..Len(b.loops) :
                 i # j => ~IsRotation(b.loops[i], b.loops[j])

\* C16: every loop the walks record visits pairwise distinct vertices.
C16_LoopsAreSimple ==
    \A b \in ImportedBoards :
        \A l \in b.found : Cardinality(Range(l)) = Len(l)

\* C17: a line mesh whose walks close no loop is imported without failure and
\* gives an empty list of cells.
C17_NoLoopsNoCells ==
    (/\ result.op = "process_gltf"
     /\ Len(probe.gltf) = 1
     /\ probe.gltf[1].mode = "Lines"
     /\ \A w \in walks([vertices |-> probe.gltf[1].vertices,
                        lines |-> probe.gltf[1].indices]) : w.kind # "loop")
        => /\ ~result.out.panic
           /\ Len(result.out.boards) = 1
           /\ result.out.boards[1].cells = <<>>

\* the primitives of a file without those of an unsupported mode
supported_only(gltf) == SelectSeq(gltf, LAMBDA prim : prim.mode \notin UnsupportedModes)

\* C18: a primitive of an unsupported mode does not abort the import: the
\* meshes of the other primitives are returned as if it were not there.
C18_UnsupportedModeIsLocal ==
    (/\ result.op = "process_gltf"
     /\ \E i \in 1..Len(probe.gltf) : probe.gltf[i].mode \in UnsupportedModes
     /\ \A i \in 1..Len(probe.gltf) : probe.gltf[i] \in SamplePrimitives)
        => /\ ~result.out.panic
           /\ result.out.meshes = collect_meshes(supported_only(probe.gltf), 1, <<>>).meshes

\* the line meshes of the file handed to process_gltf
ProbedLineMeshes ==
    {[vertices |-> probe.gltf[i].vertices, lines |-> probe.gltf[i].indices] :
        i \in {i \in 1..Len(probe.gltf) : probe.gltf[i].mode = "Lines"}}

\* C21: every walk of the extraction ends: all its iterations but the last
\* insert a vertex that was not yet in the visited set of the walk, so it
\* makes at most as many iterations as the mesh has vertices, plus one.
C21_WalksAreBounded ==
    result.op = "process_gltf" =>
        \A mesh \in ProbedLineMeshes :
            \A w \in walks(mesh) :
                /\ w.seen \subseteq 0..(Len(mesh.vertices) - 1)
                /\ w.iterations <= Cardinality(w.seen) + 1
                /\ w.iterations <= Len(mesh.vertices) + 1

C21_Witness ==
    /\ result.op = "process_gltf"
    /\ \E mesh \in ProbedLineMeshes :
         /\ \E w \in walks(mesh) : w.kind = "abandoned" /\ w.iterations >= 5
         /\ \E w \in walks(mesh) : w.kind = "loop" /\ w.iterations >= 4

\* C26: in every line mesh, each step of a walk that arrives at b from a
\* finds a successor among the neighbors of b other than a: no walk ends in
\* the unwrap of an empty max_by_key.
C26_SuccessorAlwaysExists ==
    result.op = "process_gltf" =>
        \A mesh \in ProbedLineMeshes :
            \A w \in walks(mesh) : w.kind # "panic"

\* the loops the walks of a line-mode primitive close
PrimitiveLoops(prim) ==
    {w.loop : w \in {w \in walks([vertices |-> prim.vertices, lines |-> prim.indices]) :
                        w.kind = "loop"}}

\* C22: process_gltf returns one cell list per line-mode primitive, in the
\* order of the primitives, and as meshes every line-mode and triangle-mode
\* primitive in the order of the input with its vertices and indices as they
\* are; points-mode primitives are in neither output and triangle-mode
\* primitives give no cell list.
C22_OutputsFollowPrimitives ==
    Imported =>
        LET line_prims == SelectSeq(probe.gltf, LAMBDA prim : prim.mode = "Lines")
            mesh_prims == SelectSeq(probe.gltf,
                                    LAMBDA prim : prim.mode \in {"Lines", "Triangles"})
        IN  /\ Len(result.out.boards) = Len(line_prims)
            /\ \A i \in 1..Len(line_prims) :
                 /\ result.out.boards[i].found = PrimitiveLoops(line_prims[i])
                 /\ \A k \in 1..Len(result.out.boards[i].cells) :
                      Range(result.out.boards[i].cells[k].shape.points)
                          \subseteq Range(line_prims[i].vertices)
            /\ Len(result.out.meshes) = Len(mesh_prims)
            /\ \A i \in 1..Len(mesh_prims) :
                 /\ result.out.meshes[i].vertices = mesh_prims[i].vertices
                 /\ mesh_prims[i].mode = "Lines" =>
                      /\ result.out.meshes[i].kind = "IndexedLineMesh"
                      /\ result.out.meshes[i].lines = mesh_prims[i].indices
                 /\ mesh_prims[i].mode = "Triangles" =>
                      /\ result.out.meshes[i].kind = "IndexedTriMesh"
                      /\ result.out.meshes[i].triangles = mesh_prims[i].indices

C22_Witness ==
    /\ Imported
    /\ Len(probe.gltf) = 3
    /\ probe.gltf[1].mode = "Triangles"
    /\ probe.gltf[2].mode = "Points"
    /\ probe.gltf[3].mode = "Lines"
    /\ Len(result.out.boards) = 1
    /\ Len(result.out.boards[1].cells) = 4
    /\ Len(result.out.meshes) = 2
    /\ result.out.meshes[2].kind = "IndexedLineMesh"

-----------------------------------------------------------------------------
(* Properties of the board editor                                           *)

\* C24: in the editor every neighbor key of every cell is an index into
\* board.cells and no cell has its own index as a key, so the board.cells[n]
\* of draw_board are in bounds.
C24_EditorKeysValid ==
    \A i \in 1..Len(board.cells) :
        /\ DOMAIN board.cells[i].neighbors \subseteq 0..(Len(board.cells) - 1)
        /\ (i - 1) \notin DOMAIN board.cells[i].neighbors

\* a cell has been removed from a board on which a pick had added a neighbor,
\* and keys are left
C24_Witness ==
    /\ result.op = "remove"
    /\ \E i \in 1..Len(result.before) : \E j \in 1..Len(result.before) :
         /\ (j - 1) \in DOMAIN result.before[i].neighbors
         /\ (i - 1) \notin DOMAIN result.before[j].neighbors
    /\ \E i \in 1..Len(board.cells) : DOMAIN board.cells[i].neighbors # {}

\* shift(k) of the removal of x, as an index after the removal
shift(k, x) == IF k < x THEN k ELSE k - 1

\* C25: after the removal of cell x, for old indices i and j other than x, j
\* was a neighbor key of i exactly when shift(j) is a neighbor key of
\* shift(i); nothing else is a key, and the surviving cells are otherwise as
\* they were.
C25_RemovalPreservesAdjacency ==
    result.op = "remove" =>
        LET x == result.x
            old == result.before
            survivors == (0..(Len(old) - 1)) \ {x}
        IN  /\ Len(board.cells) = Len(old) - 1
            /\ \A i \in survivors :
                 /\ \A j \in survivors :
                      j \in DOMAIN old[i + 1].neighbors <=>
                          shift(j, x) \in DOMAIN board.cells[shift(i, x) + 1].neighbors
                 /\ DOMAIN board.cells[shift(i, x) + 1].neighbors
                        \subseteq {shift(j, x) : j \in survivors}
                 /\ \A j \in survivors \cap DOMAIN old[i + 1].neighbors :
                      board.cells[shift(i, x) + 1].neighbors[shift(j, x)]
                          = old[i + 1].neighbors[j]
                 /\ board.cells[shift(i, x) + 1].position = old[i + 1].position
                 /\ board.cells[shift(i, x) + 1].shape = old[i + 1].shape

\* a removal in the middle: a survivor above x had x and another survivor
\* above x as neighbors
C25_Witness ==
    /\ result.op = "remove"
    /\ \E i \in 1..Len(result.before) : \E j \in 1..Len(result.before) :
         /\ i - 1 > result.x
         /\ j - 1 > result.x
         /\ {result.x, j - 1} \subseteq DOMAIN result.before[i].neighbors
         /\ result.x > 0

-----------------------------------------------------------------------------
(* Properties of the export                                                 *)

\* C27: whenever an export task is between inserting and removing its
\* Exporting marker, the Exporting resource is present, also when several
\* tasks overlap.
C27_MarkerHeldWhileExporting ==
    (result.exporting \in BOOLEAN /\ \E i \in Tasks : HoldsMarker(result.tasks[i]))
        => result.exporting

\* the other half of C27: every task that has been spawned removes its marker
\* in the end, whether the dialog is cancelled or the write succeeds or fails
C27_MarkerEventuallyRemoved ==
    \A i \in Tasks : (result.tasks[i] = "spawned") ~> (result.tasks[i] = "done")

====
